---- MODULE Spec2Model ----
(***************************************************************************)
(* Request validation engine of src/lib/middleware/validationUtils.js and  *)
(* its helpers in utils.js (src/unnamed/part_001).                         *)
(*                                                                         *)
(* JavaScript values are records [k, n, s, items]: k is the runtime kind,  *)
(* n the integer payload of a number, s the characters of a string (a      *)
(* sequence of one-character strings) and items the elements of an array.  *)
(* A computation that can raise a TypeError returns [threw, val].          *)
(***************************************************************************)
EXTENDS Integers, Sequences, FiniteSets

VARIABLES req, rules, pc, result, args, returned

vars == <<req, rules, pc, result, args, returned>>

(***************************************************************************)
(* Bounds of the explored inputs.                                          *)
(***************************************************************************)
MaxBodyLen == 2
MaxItems == 3
MaxRules == 3
MaxRequired == 2
MaxCalls == 2

(***************************************************************************)
(* Generic sequence helpers.                                               *)
(***************************************************************************)
RECURSIVE Concat(_)
Concat(ss) == IF ss = <<>> THEN <<>> ELSE Head(ss) \o Concat(Tail(ss))

Range(s) == {s[i] : i \in 1..Len(s)}

SeqsUpTo(S, n) == UNION {[1..m -> S] : m \in 0..n}

DistinctSeqsUpTo(S, n) ==
  {s \in SeqsUpTo(S, n) : \A i, j \in 1..Len(s) : i # j => s[i] # s[j]}

(***************************************************************************)
(* JavaScript values.                                                      *)
(***************************************************************************)
Undefined == [k |-> "undefined", n |-> 0, s |-> <<>>, items |-> <<>>]
Null == [k |-> "null", n |-> 0, s |-> <<>>, items |-> <<>>]
NaN == [k |-> "nan", n |-> 0, s |-> <<>>, items |-> <<>>]
Num(i) == [k |-> "num", n |-> i, s |-> <<>>, items |-> <<>>]
\* the non-integral number i + 0.5, i >= 0
Frac(i) == [k |-> "frac", n |-> i, s |-> <<>>, items |-> <<>>]
Bool(b) == [k |-> "bool", n |-> IF b THEN 1 ELSE 0, s |-> <<>>, items |-> <<>>]
Str(cs) == [k |-> "str", n |-> 0, s |-> cs, items |-> <<>>]
Arr(xs) == [k |-> "arr", n |-> 0, s |-> <<>>, items |-> xs]
\* a plain object such as {}
Obj == [k |-> "obj", n |-> 0, s |-> <<>>, items |-> <<>>]

\* the typeof operator
TypeOf(v) ==
  CASE v.k = "undefined" -> "undefined"
    [] v.k \in {"num", "frac", "nan"} -> "number"
    [] v.k = "bool" -> "boolean"
    [] v.k = "str" -> "string"
    [] OTHER -> "object"

\* mutant of IsFalsy: only an absent or null value counts as no data
IsFalsyNilOnly(v) == v.k \in {"undefined", "null"}

\* ToBoolean: the values for which !v is true
IsFalsy(v) ==
  \/ v.k \in {"undefined", "null", "nan"}
  \/ v.k = "num" /\ v.n = 0
  \/ v.k = "bool" /\ v.n = 0
  \/ v.k = "str" /\ v.s = <<>>

IsArray(v) == v.k = "arr"

Digits == <<"0", "1", "2", "3", "4", "5", "6", "7", "8", "9">>

IsDigit(c) == \E d \in 1..Len(Digits) : Digits[d] = c

DigitVal(c) == (CHOOSE d \in 1..Len(Digits) : Digits[d] = c) - 1

WhiteSpace == {" ", "\t", "\n"}

RECURSIVE NatToStr(_)
NatToStr(i) ==
  IF i < 10 THEN <<Digits[i + 1]>>
  ELSE NatToStr(i \div 10) \o <<Digits[(i % 10) + 1]>>

NumToStr(i) == IF i < 0 THEN <<"-">> \o NatToStr(-i) ELSE NatToStr(i)

\* String(v) of a value that is not an array
ScalarToString(v) ==
  CASE v.k = "str" -> v.s
    [] v.k = "num" -> NumToStr(v.n)
    [] v.k = "frac" -> NumToStr(v.n) \o <<".", "5">>
    [] v.k = "nan" -> <<"N", "a", "N">>
    [] v.k = "null" -> <<"n", "u", "l", "l">>
    [] v.k = "undefined" -> <<"u", "n", "d", "e", "f", "i", "n", "e", "d">>
    [] v.k = "bool" ->
         IF v.n = 1 THEN <<"t", "r", "u", "e">> ELSE <<"f", "a", "l", "s", "e">>
    [] v.k = "obj" ->
         <<"[", "o", "b", "j", "e", "c", "t", " ", "O", "b", "j", "e", "c", "t", "]">>
    [] OTHER -> <<>>

\* Array.prototype.join(","): null and undefined elements give the empty string
RECURSIVE JoinItems(_)
JoinItems(xs) ==
  IF xs = <<>> THEN <<>>
  ELSE LET h == IF Head(xs).k \in {"null", "undefined"} THEN <<>>
                ELSE ScalarToString(Head(xs))
       IN IF Len(xs) = 1 THEN h ELSE h \o <<",">> \o JoinItems(Tail(xs))

\* String(v), the conversion parseInt and RegExp.test apply to their argument
JSString(v) == IF v.k = "arr" THEN JoinItems(v.items) ELSE ScalarToString(v)

RECURSIVE SkipWhiteSpace(_)
SkipWhiteSpace(cs) ==
  IF cs # <<>> /\ Head(cs) \in WhiteSpace THEN SkipWhiteSpace(Tail(cs)) ELSE cs

\* the value of the longest prefix of digits of cs, continuing from acc
RECURSIVE DigitsValue(_, _)
DigitsValue(cs, acc) ==
  IF cs # <<>> /\ IsDigit(Head(cs))
  THEN DigitsValue(Tail(cs), acc * 10 + DigitVal(Head(cs)))
  ELSE acc

\* the digits of u with the sign applied; NaN when u starts with no digit
ParseUnsigned(u, sign) ==
  IF u # <<>> /\ IsDigit(Head(u)) THEN Num(sign * DigitsValue(u, 0)) ELSE NaN

\* an optional sign, then the digits
ParseSigned(t) ==
  IF t # <<>> /\ Head(t) \in {"-", "+"}
  THEN ParseUnsigned(Tail(t), IF Head(t) = "-" THEN -1 ELSE 1)
  ELSE ParseUnsigned(t, 1)

\* parseInt(v, 10): leading white space, an optional sign, then digits up to
\* the first character that is not one; NaN when there is no digit
ParseInt(v) == ParseSigned(SkipWhiteSpace(JSString(v)))

\* /^([\[\]])/.test(value)
isStringifiedArray(v) ==
  LET t == JSString(v) IN t # <<>> /\ Head(t) \in {"[", "]"}

Stripped == {"[", "]", "'", "\""} \cup WhiteSpace

\* value.replace(/\[|\]|\'|\"|\s/g, '')
StripChars(cs) == SelectSeq(cs, LAMBDA c : c \notin Stripped)

\* String.prototype.split(','): always at least one piece
RECURSIVE SplitComma(_, _)
SplitComma(cs, cur) ==
  IF cs = <<>> THEN <<cur>>
  ELSE IF Head(cs) = "," THEN <<cur>> \o SplitComma(Tail(cs), <<>>)
  ELSE SplitComma(Tail(cs), Append(cur, Head(cs)))

Ok(v) == [threw |-> FALSE, val |-> v]
Throw == [threw |-> TRUE, val |-> <<>>]

\* mutant of CastInteger: no parse
CastIntegerIdentity(v) == Ok(v)

\* typeToCast.integer
CastInteger(v) == Ok(ParseInt(v))

StrItems(parts) == [i \in 1..Len(parts) |-> Str(parts[i])]

\* typeToCast.array; value.replace is not a function unless value is a string
CastArray(v) ==
  IF ~IsArray(v) /\ ParseInt(v).k = "nan" /\ isStringifiedArray(v)
  THEN IF v.k = "str" THEN Ok(Arr(StrItems(SplitComma(StripChars(v.s), <<>>))))
       ELSE Throw
  ELSE Ok(v)

\* mutant of castIfNeeded: the array cast wraps the value in a list
castIfNeededWrapping(v, type) ==
  CASE type = "integer" -> CastInteger(v)
    [] type = "array" -> Ok([k |-> "arr", n |-> 0, s |-> <<>>, items |-> <<v>>])
    [] OTHER -> Ok(v)

\* typeToCast has the keys integer and array; typeof never yields either name,
\* so a registered cast is always applied
castIfNeeded(v, type) ==
  CASE type = "integer" -> IF TypeOf(v) # type THEN CastInteger(v) ELSE Ok(v)
    [] type = "array" -> IF TypeOf(v) # type THEN CastArray(v) ELSE Ok(v)
    [] OTHER -> Ok(v)

(***************************************************************************)
(* Error entries.  A validation yields undefined, an error generator (the  *)
(* closure a generate...Error(location) call returns) or, for the items of *)
(* an array, a list of these.  Calling a generator renders location        *)
(* followed by the message of its template.                                *)
(***************************************************************************)
UndefEntry == [t |-> "undefined", path |-> <<>>, msg |-> "", items |-> <<>>]
ErrFn(location, msg) == [t |-> "fn", path |-> location, msg |-> msg, items |-> <<>>]
ListEntry(es) == [t |-> "list", path |-> <<>>, msg |-> "", items |-> es]

generateInvalidNumberError(location) == ErrFn(location, " is not a valid number")
generateInvalidStringError(location) == ErrFn(location, " is not a valid string")
generateEmptyStringError(location) == ErrFn(location, " must be non empty")
generateInvalidArrayError(location) == ErrFn(location, " is not a valid array")
generateRequiredFieldsError(location) == ErrFn(location, " is a required field")
generateNonRelevantFieldsError(location) ==
  ErrFn(location, " is not relevant for this request")

\* errorGenerator(): the template literal `${location}<message>`
CallGenerator(e) == e.path \o <<e.msg>>

isNil(v) == v.k \in {"null", "undefined"}

isNumber(v) == TypeOf(v) = "number"
isString(v) == TypeOf(v) = "string"

\* mutant of isEmptyString: value.length <= 1
isEmptyStringUpToOne(v) ==
  CASE v.k \in {"null", "undefined"} -> Throw
    [] v.k = "str" -> Ok(Len(v.s) <= 1)
    [] v.k = "arr" -> Ok(Len(v.items) <= 1)
    [] OTHER -> Ok(FALSE)

\* value.length <= 0; reading .length of null or undefined is a TypeError, and
\* a value without a length compares undefined <= 0, which is false
isEmptyString(v) ==
  CASE isNil(v) -> Throw
    [] v.k = "str" -> Ok(Len(v.s) <= 0)
    [] v.k = "arr" -> Ok(Len(v.items) <= 0)
    [] OTHER -> Ok(FALSE)

\* the validators of fieldToValidator, by name, applied to one argument
Predicate(vname, v) ==
  CASE vname = "integer" -> Ok(isNumber(v) /\ v.k # "nan" /\ v.k = "num")
    [] vname = "isString" -> Ok(isString(v))
    [] vname = "notEmptyString" ->
         LET e == isEmptyString(v) IN IF e.threw THEN Throw ELSE Ok(~e.val)
    [] OTHER -> Ok(IsArray(v))

\* the error factory paired with a validator; allItemsMatchType has none
HasError(vname) == vname # "allItemsMatchType"

ErrorOf(vname, location) ==
  CASE vname = "integer" -> generateInvalidNumberError(location)
    [] vname = "isString" -> generateInvalidStringError(location)
    [] vname = "notEmptyString" -> generateEmptyStringError(location)
    [] OTHER -> generateInvalidArrayError(location)

RegisteredTypes == {"integer", "string", "array"}

\* a sequence of outcomes as the outcome of the sequence: a throw anywhere
\* aborts the whole map
Collect(rs) ==
  IF \E j \in 1..Len(rs) : rs[j].threw THEN Throw
  ELSE Ok([j \in 1..Len(rs) |-> rs[j].val])

\* Array.prototype.flat(): one level
Flat(es) ==
  Concat([i \in 1..Len(es) |-> IF es[i].t = "list" THEN es[i].items ELSE <<es[i]>>])

\* filter(not(isNil))
NotNil(es) == SelectSeq(es, LAMBDA e : e.t # "undefined")

\* the validators of fieldToValidator[type], by name
ValidatorsOf(type) ==
  CASE type = "integer" -> <<"integer">>
    [] type = "string" -> <<"isString", "notEmptyString">>
    [] OTHER -> <<"isArray", "allItemsMatchType">>

\* the descriptor a registered fieldToValidator[type] returns; c is the
\* outcome of castIfNeeded on the value
Descriptor(type, rule, value, path, c) ==
  [threw |-> c.threw, path |-> path, rule |-> rule,
   toValidate |-> IF c.threw THEN value ELSE c.val,
   validators |-> ValidatorsOf(type)]

\* mutant of fieldToValidator: an unregistered type gives a descriptor without
\* validators
fieldToValidatorLenient(type, rule, value, path) ==
  IF type \notin RegisteredTypes
  THEN [threw |-> FALSE, path |-> path, rule |-> rule, toValidate |-> value,
        validators |-> <<>>]
  ELSE Descriptor(type, rule, value, path, castIfNeeded(value, type))

\* fieldToValidator[type]({rule, value, path}); an unregistered type has no
\* entry, and calling undefined is a TypeError
fieldToValidator(type, rule, value, path) ==
  IF type \notin RegisteredTypes
  THEN [threw |-> TRUE, path |-> path, rule |-> rule, toValidate |-> value,
        validators |-> <<>>]
  ELSE Descriptor(type, rule, value, path, castIfNeeded(value, type))

IdxStr(i) == NatToStr(i)

\* mutant of ItemPath: a 1-based index
ItemPathOneBased(rule, index) ==
  <<rule.in, ".", rule.name, "[">> \o IdxStr(index + 1) \o <<"]">>

\* `${validation.rule.in}.${validation.rule.name}[${index}]`
ItemPath(rule, index) == <<rule.in, ".", rule.name, "[">> \o IdxStr(index) \o <<"]">>

ItemRecordOf(p, vname, path) ==
  IF p.threw THEN Throw
  ELSE Ok([isValid |-> p.val, hasError |-> HasError(vname),
           generateError |-> vname, path |-> path])

\* {isValid: validator(toValidate), generateError: error, path}; the validator
\* gets one argument, so a nested allItemsMatchType has no validation object
ItemRecord(vname, toValidate, path) ==
  IF vname = "allItemsMatchType"
  THEN IF IsArray(toValidate) /\ toValidate.items # <<>> THEN Throw
       ELSE Ok([isValid |-> TRUE, hasError |-> FALSE,
                generateError |-> vname, path |-> path])
  ELSE ItemRecordOf(Predicate(vname, toValidate), vname, path)

ChildRecords(child) ==
  IF child.threw THEN Throw
  ELSE Collect([j \in 1..Len(child.validators) |->
                  ItemRecord(child.validators[j], child.toValidate, child.path)])

\* the callback of arr.map in allItemsMatchType, for one element
ItemRecords(rule, value, index) ==
  IF ~rule.hasItems THEN Throw
  ELSE ChildRecords(fieldToValidator(rule.items.type, rule.items, value,
                                     ItemPath(rule, index)))

\* mutant of FlatRecords: one record, the first, for each element
FlatRecordsFirstOnly(per) ==
  IF per.threw THEN Throw
  ELSE Ok(Concat([i \in 1..Len(per.val) |-> SubSeq(per.val[i], 1, 1)]))

\* the .flat() of the per-element lists
FlatRecords(per) == IF per.threw THEN Throw ELSE Ok(Concat(per.val))

\* mutant of allItemsMatchType: without the Array.isArray guard, mapping a
\* value that is not a list is a TypeError
allItemsMatchTypeNoGuard(arr, validation, hasValidation) ==
  IF ~IsArray(arr) THEN Throw
  ELSE IF arr.items = <<>> THEN Ok(<<>>)
  ELSE IF ~hasValidation THEN Throw
  ELSE FlatRecords(Collect([i \in 1..Len(arr.items) |->
                              ItemRecords(validation.rule, arr.items[i], i - 1)]))

\* allItemsMatchType(arr, validation); hasValidation is false when the caller
\* passes one argument
allItemsMatchType(arr, validation, hasValidation) ==
  IF ~IsArray(arr) THEN Ok(<<>>)
  ELSE IF arr.items = <<>> THEN Ok(<<>>)
  ELSE IF ~hasValidation THEN Throw
  ELSE FlatRecords(Collect([i \in 1..Len(arr.items) |->
                              ItemRecords(validation.rule, arr.items[i], i - 1)]))

processArrayValidationResult(r) ==
  IF ~r.isValid /\ r.hasError THEN ErrorOf(r.generateError, r.path) ELSE UndefEntry

processArrayValidationResults(validationResults) ==
  [i \in 1..Len(validationResults) |->
     processArrayValidationResult(validationResults[i])]

processSingleFieldValidationResult(validationResult, vname, path) ==
  IF ~validationResult /\ HasError(vname) THEN ErrorOf(vname, path)
  ELSE UndefEntry

ArrayOutcome(r) ==
  IF r.threw THEN Throw ELSE Ok(ListEntry(processArrayValidationResults(r.val)))

SingleOutcome(p, vname, path) ==
  IF p.threw THEN Throw
  ELSE Ok(processSingleFieldValidationResult(p.val, vname, path))

\* the callback of val.validators.map in validate, for one validator
ValidateOne(vname, toValidate, val) ==
  IF vname = "allItemsMatchType"
  THEN ArrayOutcome(allItemsMatchType(toValidate, val, IsArray(toValidate)))
  ELSE SingleOutcome(Predicate(vname, toValidate), vname, val.path)

\* validate(toValidate, val): one entry per validator of the descriptor
validate(toValidate, val) ==
  Collect([j \in 1..Len(val.validators) |->
             ValidateOne(val.validators[j], toValidate, val)])

\* validate(validation.toValidate, validation) on a descriptor just built
RunDescriptor(validation) ==
  IF validation.threw THEN Throw ELSE validate(validation.toValidate, validation)

(***************************************************************************)
(* utils.js                                                                *)
(***************************************************************************)
\* a request body: k is "obj" for a plain object with own entries <<key,
\* value>> in key order, "arr" for an array, or the name of a falsy value
FalsyBodyKinds == {"null", "undefined", "zero", "emptyString", "false", "nan"}

\* mutant of isEmpty: without the (obj || {}) default and the Array case
isEmptyObjectOnly(data) == data.k = "obj" /\ ~(Len(data.entries) # 0)

\* isEmpty(obj): (obj || {}) is {} for a falsy obj; Object and Array values
\* with no entries are empty
isEmpty(data) ==
  IF data.k \in FalsyBodyKinds THEN TRUE
  ELSE data.k \in {"obj", "arr"} /\ ~(Len(data.entries) # 0)

\* mutant of spiltArray: each element is put in front of its list
spiltArrayPrepending(arr, divider) ==
  LET acc[i \in 0..Len(arr)] ==
        IF i = 0 THEN <<<<>>, <<>>>>
        ELSE IF arr[i] \in divider
             THEN <<<<arr[i]>> \o acc[i - 1][1], acc[i - 1][2]>>
             ELSE <<acc[i - 1][1], <<arr[i]>> \o acc[i - 1][2]>>
  IN acc[Len(arr)]

\* spiltArray(arr, divider): the reduce over arr; divider is the set of the
\* elements the predicate accepts
spiltArray(arr, divider) ==
  LET acc[i \in 0..Len(arr)] ==
        IF i = 0 THEN <<<<>>, <<>>>>
        ELSE IF arr[i] \in divider
             THEN <<Append(acc[i - 1][1], arr[i]), acc[i - 1][2]>>
             ELSE <<acc[i - 1][1], Append(acc[i - 1][2], arr[i])>>
  IN acc[Len(arr)]

(***************************************************************************)
(* Orchestrators.                                                          *)
(***************************************************************************)
\* data[key] on the entries of an object: undefined when the key is absent
Get(entries, key) ==
  IF \E i \in 1..Len(entries) : entries[i][1] = key
  THEN entries[CHOOSE i \in 1..Len(entries) : entries[i][1] = key][2]
  ELSE Undefined

\* isFieldInValidationRules(rule)([key]); rule.properties must exist
isFieldInValidationRules(rule, entry) == entry[1] \in DOMAIN rule.properties

QueryOutcome(r) == IF r.threw THEN Throw ELSE Ok(NotNil(Flat(r.val)))

\* mutant of QueryField: an absent or falsy parameter is reported as required
QueryFieldRequired(fieldToTest, rule) ==
  IF IsFalsy(fieldToTest)
  THEN Ok(<<generateRequiredFieldsError(<<rule.in, ".", rule.name>>)>>)
  ELSE QueryOutcome(RunDescriptor(
         fieldToValidator(rule.type, rule, fieldToTest, <<rule.in, ".", rule.name>>)))

QueryField(fieldToTest, rule) ==
  IF IsFalsy(fieldToTest) THEN Ok(<<>>)
  ELSE QueryOutcome(RunDescriptor(
         fieldToValidator(rule.type, rule, fieldToTest, <<rule.in, ".", rule.name>>)))

validateQueryParams(data, rule) == QueryField(Get(data, rule.name), rule)

\* schema.required || []
RequiredOf(schema) == IF schema.hasRequired THEN schema.required ELSE <<>>

RequiredErrorsFor(location, names) ==
  [i \in 1..Len(names) |-> generateRequiredFieldsError(<<location, ".", names[i]>>)]

\* (schema.required || []).filter((required) => isNil(data[required]))
MissingRequired(data, required) ==
  SelectSeq(required, LAMBDA name : isNil(Get(data.entries, name)))

NotUsedFieldsError(location, fieldsToBlock) ==
  [i \in 1..Len(fieldsToBlock) |->
     generateNonRelevantFieldsError(<<location, ".", fieldsToBlock[i][1]>>)]

\* the callback of relevantFields.map in validateBody, for one entry
BodyField(location, propRule, entry) ==
  RunDescriptor(fieldToValidator(propRule.type, propRule, entry[2],
                                 <<location, ".", entry[1]>>))

\* the .flat() of the per-field lists
FlatFields(per) ==
  IF per.threw THEN Throw
  ELSE Ok(Flat([i \in 1..Len(per.val) |-> ListEntry(per.val[i])]))

\* mutant of BodyResult: the required-field errors first
BodyResultRequiredFirst(notUsedFieldsError, requiredErrors, validationErrors) ==
  IF validationErrors.threw THEN Throw
  ELSE Ok(requiredErrors \o notUsedFieldsError \o validationErrors.val)

BodyResult(notUsedFieldsError, requiredErrors, validationErrors) ==
  IF validationErrors.threw THEN Throw
  ELSE Ok(notUsedFieldsError \o requiredErrors \o validationErrors.val)

BodyOutcome(data, location, schema, split) ==
  BodyResult(NotUsedFieldsError(location, split[2]),
             RequiredErrorsFor(location, MissingRequired(data, RequiredOf(schema))),
             FlatFields(Collect([i \in 1..Len(split[1]) |->
                                   BodyField(location,
                                             schema.properties[split[1][i][1]],
                                             split[1][i])])))

validateBody(data, rule) ==
  IF isEmpty(data) THEN Ok(RequiredErrorsFor(rule.in, RequiredOf(rule.schema)))
  ELSE IF ~rule.schema.hasProperties THEN Throw
  ELSE BodyOutcome(data, rule.in, rule.schema,
                   spiltArray(data.entries,
                              {e \in Range(data.entries) :
                                 isFieldInValidationRules(rule.schema, e)}))

\* validationToLocation[rule.in](req[rule.in], rule)
validationToLocation(r, rule) ==
  CASE rule.in = "body" -> validateBody(r.body, rule)
    [] rule.in = "query" -> validateQueryParams(r.query, rule)
    [] OTHER -> Throw

\* .map((errorGenerator) => errorGenerator()): calling a list is a TypeError
Materialize(kept) ==
  IF \E i \in 1..Len(kept) : kept[i].t # "fn" THEN Throw
  ELSE Ok([i \in 1..Len(kept) |-> CallGenerator(kept[i])])

RequestOutcome(per) ==
  IF per.threw THEN Throw
  ELSE Materialize(NotNil(Flat([i \in 1..Len(per.val) |-> ListEntry(per.val[i])])))

\* mutant of validateRequest: stops at the first rule that reports an error
FirstFailure(per) ==
  IF per.threw THEN Throw
  ELSE IF \A i \in 1..Len(per.val) : NotNil(per.val[i]) = <<>> THEN Ok(<<>>)
  ELSE Materialize(NotNil(per.val[CHOOSE i \in 1..Len(per.val) :
                                    /\ NotNil(per.val[i]) # <<>>
                                    /\ \A j \in 1..(i - 1) : NotNil(per.val[j]) = <<>>]))
validateRequestFirstFailure(r, rs) ==
  FirstFailure(Collect([i \in 1..Len(rs) |-> validationToLocation(r, rs[i])]))

validateRequest(r, rs) ==
  RequestOutcome(Collect([i \in 1..Len(rs) |-> validationToLocation(r, rs[i])]))

(***************************************************************************)
(* Inputs: requests and rule lists.                                        *)
(***************************************************************************)
Keys == {"a", "b", "c"}

NoItems == [type |-> "undefined"]
NoSchema == [hasProperties |-> FALSE, properties |-> <<>>,
             hasRequired |-> FALSE, required |-> <<>>]

\* a property of a body schema: it has a type and, for arrays, items, but no
\* "in" and no "name" (a template literal renders both as "undefined")
PropRule(type, itemType) ==
  [in |-> "undefined", name |-> "undefined", type |-> type,
   hasItems |-> type = "array", items |-> [type |-> itemType], schema |-> NoSchema]

QueryRule(name, type, itemType) ==
  [in |-> "query", name |-> name, type |-> type,
   hasItems |-> type = "array", items |-> [type |-> itemType], schema |-> NoSchema]

BodyRule(schema) ==
  [in |-> "body", name |-> "undefined", type |-> "undefined",
   hasItems |-> FALSE, items |-> NoItems, schema |-> schema]

Schema(props, hasReq, required) ==
  [hasProperties |-> TRUE, properties |-> props,
   hasRequired |-> hasReq, required |-> required]

ObjBody(entries) == [k |-> "obj", entries |-> entries]

\* objects with at most n own entries, keys distinct
Objects(keys, values, n) ==
  {es \in SeqsUpTo(keys \X values, n) :
     \A i, j \in 1..Len(es) : i # j => es[i][1] # es[j][1]}

\* the (type, item type) pairs of the supported field types
FieldTypes == {<<"integer", "undefined">>, <<"string", "undefined">>,
               <<"array", "integer">>, <<"array", "string">>}

RequiredLists == {<<FALSE, <<>>>>} \cup
                 {<<TRUE, s>> : s \in DistinctSeqsUpTo(Keys, MaxRequired)}

X == <<"x">>

\* a type name with no entry in typeToCast and none in fieldToValidator
UnknownType == "boolean"
ValueTypes == FieldTypes \cup {<<UnknownType, "undefined">>}

\* bodies of up to MaxBodyLen fields against every schema over a and b
StructValues == {Null, Num(1), Str(X)}
StructProps ==
  UNION {[D -> {PropRule("integer", "undefined"), PropRule("string", "undefined")}] :
           D \in SUBSET {"a", "b"}}
StructInputs ==
  {<<[body |-> ObjBody(es), query |-> <<>>], <<BodyRule(Schema(p, rq[1], rq[2]))>>>> :
     es \in Objects(Keys, StructValues, MaxBodyLen), p \in StructProps,
     rq \in RequiredLists}

\* one field holding any value, as a body property and as a query parameter
ItemValues == {Num(1), Str(X), Str(<<"2">>), Null}
ScalarValues ==
  {Undefined, Null, NaN, Num(0), Num(1), Num(-4), Num(12), Frac(1), Bool(TRUE),
   Bool(FALSE), Obj, Str(<<>>), Str(X), Str(<<"1">>), Str(<<"1", "x">>),
   Str(<<" ", "7">>), Str(<<"-", "3">>), Str(<<"[", "1", ",", "x", "]">>),
   Str(<<"[", "]">>), Str(<<"]">>), Str(<<" ", "[", "1", "]">>)}
FieldValues == ScalarValues \cup {Arr(xs) : xs \in SeqsUpTo(ItemValues, MaxItems)}
ValueInputs ==
  {<<[body |-> ObjBody(<<<<"a", v>>>>), query |-> <<<<"a", v>>, <<"b", Num(1)>>>>],
     <<rl>>>> :
     v \in FieldValues,
     rl \in {BodyRule(Schema([n \in {"a"} |-> PropRule(ft[1], ft[2])], FALSE, <<>>)) :
               ft \in ValueTypes}
            \cup {QueryRule(n, ft[1], ft[2]) : n \in {"a", "c"}, ft \in ValueTypes}}

\* empty bodies: {}, [] and the falsy values; the schema may lack properties
EmptyBodies == {[k |-> kind, entries |-> <<>>] : kind \in {"obj", "arr"} \cup FalsyBodyKinds}
EmptyInputs ==
  {<<[body |-> b, query |-> <<>>],
     <<BodyRule([hasProperties |-> hp,
                 properties |-> IF hp THEN [n \in {"a"} |-> PropRule("string", "undefined")]
                                ELSE <<>>,
                 hasRequired |-> rq[1], required |-> rq[2]])>>>> :
     b \in EmptyBodies, hp \in BOOLEAN, rq \in RequiredLists}

\* lists of up to MaxRules rules over a few requests
ListRules ==
  {BodyRule(Schema([n \in {"a", "b"} |->
                      IF n = "a" THEN PropRule("string", "undefined")
                      ELSE PropRule("integer", "undefined")], TRUE, <<"b">>)),
   QueryRule("a", "string", "undefined"),
   QueryRule("a", "array", "integer"),
   QueryRule("b", "integer", "undefined")}
ListBodies ==
  {ObjBody(<<>>), ObjBody(<<<<"a", Num(1)>>, <<"c", Str(X)>>>>),
   ObjBody(<<<<"b", Num(1)>>, <<"a", Str(X)>>>>), ObjBody(<<<<"a", Null>>>>)}
ListQueryValues == {Undefined, Num(1), Str(X), Arr(<<Str(X), Num(1)>>)}
ListInputs ==
  {<<[body |-> b, query |-> <<<<"a", qa>>, <<"b", qb>>>>], rs>> :
     b \in ListBodies, qa \in ListQueryValues, qb \in ListQueryValues,
     rs \in SeqsUpTo(ListRules, MaxRules)}

Inputs == StructInputs \cup ValueInputs \cup EmptyInputs \cup ListInputs

(***************************************************************************)
(* The state machine: a request and its rules arrive, and the exported     *)
(* functions are applied to them: the entry points to the request, the     *)
(* field-level functions to the fields the rules name.  returned keeps the *)
(* results of the validateRequest calls made so far, args the arguments of *)
(* the field-level function applied last.                                  *)
(***************************************************************************)
EntryPcs == {"request", "body", "query"}

\* the (value, rule, path) triples the orchestrators hand to fieldToValidator:
\* data[rule.name] for a query rule, every known entry of the body for a body
\* rule
QueryFields(r, rs) ==
  {[value |-> Get(r.query, rs[i].name), rule |-> rs[i],
    path |-> <<rs[i].in, ".", rs[i].name>>] :
     i \in {k \in 1..Len(rs) : rs[k].in = "query"}}
BodyFields(r, rs) ==
  UNION {{[value |-> e[2], rule |-> rs[i].schema.properties[e[1]],
           path |-> <<rs[i].in, ".", e[1]>>] :
            e \in {x \in Range(r.body.entries) :
                     isFieldInValidationRules(rs[i].schema, x)}} :
           i \in {k \in 1..Len(rs) : rs[k].in = "body" /\ r.body.k = "obj"}}
Fields(r, rs) == QueryFields(r, rs) \cup BodyFields(r, rs)

\* the orchestrators build a validator for the field: a body entry whose key
\* is in schema.properties, or a query parameter whose value is truthy
ReachesValidator(f) == f.rule.in = "query" => ~IsFalsy(f.value)
ValidatedFields(r, rs) == {f \in Fields(r, rs) : ReachesValidator(f)}

Init ==
  /\ \E inp \in Inputs : req = inp[1] /\ rules = inp[2]
  /\ pc = "ready"
  /\ result = Ok(<<>>)
  /\ args = <<>>
  /\ returned = <<>>

\* mutant of ValidateRequest: the call consumes the body of the request
ValidateRequestDraining ==
  /\ pc = "ready"
  /\ result' = validateRequest(req, rules)
  /\ returned' = Append(returned, result')
  /\ pc' = "request"
  /\ req' = [req EXCEPT !.body = ObjBody(<<>>)]
  /\ UNCHANGED <<rules, args>>

ValidateRequest ==
  /\ pc = "ready"
  /\ result' = validateRequest(req, rules)
  /\ returned' = Append(returned, result')
  /\ pc' = "request"
  /\ UNCHANGED <<req, rules, args>>

ValidateBody ==
  /\ pc = "ready"
  /\ rules # <<>> /\ rules[1].in = "body"
  /\ result' = validateBody(req.body, rules[1])
  /\ pc' = "body"
  /\ UNCHANGED <<req, rules, args, returned>>

ValidateQueryParams ==
  /\ pc = "ready"
  /\ rules # <<>> /\ rules[1].in = "query"
  /\ result' = validateQueryParams(req.query, rules[1])
  /\ pc' = "query"
  /\ UNCHANGED <<req, rules, args, returned>>

\* an entry point has returned and the caller may invoke the engine again on
\* the same request and rules
Return ==
  /\ pc \in EntryPcs
  /\ Len(returned) < MaxCalls
  /\ pc' = "ready"
  /\ result' = Ok(<<>>)
  /\ UNCHANGED <<req, rules, args, returned>>

\* castIfNeeded(value, rule.type), as fieldToValidator applies it to a field
CastIfNeeded ==
  /\ pc = "ready" /\ returned = <<>>
  /\ \E f \in ValidatedFields(req, rules) :
       /\ args' = f
       /\ result' = castIfNeeded(f.value, f.rule.type)
  /\ pc' = "cast"
  /\ UNCHANGED <<req, rules, returned>>

\* castIfNeeded applied to its own result
CastAgain ==
  /\ pc = "cast" /\ ~result.threw
  /\ args' = [args EXCEPT !.value = result.val]
  /\ result' = castIfNeeded(result.val, args.rule.type)
  /\ pc' = "recast"
  /\ UNCHANGED <<req, rules, returned>>

\* validate(toValidate, validation) on the descriptor of a field
Validate ==
  /\ pc = "ready" /\ returned = <<>>
  /\ \E f \in ValidatedFields(req, rules) :
       /\ args' = f
       /\ result' = RunDescriptor(fieldToValidator(f.rule.type, f.rule, f.value, f.path))
  /\ pc' = "validate"
  /\ UNCHANGED <<req, rules, returned>>

\* allItemsMatchType(toValidate, validation) on the descriptor of an array
\* field whose coercion returned
AllItemsMatchType ==
  /\ pc = "ready" /\ returned = <<>>
  /\ \E f \in ValidatedFields(req, rules) :
       /\ f.rule.type = "array"
       /\ ~castIfNeeded(f.value, "array").threw
       /\ args' = fieldToValidator("array", f.rule, f.value, f.path)
       /\ result' = allItemsMatchType(args'.toValidate, args', TRUE)
  /\ pc' = "items"
  /\ UNCHANGED <<req, rules, returned>>

\* spiltArray(Object.entries(data), isFieldInValidationRules(schema)), as
\* validateBody applies it
SpiltArray ==
  /\ pc = "ready" /\ returned = <<>>
  /\ rules # <<>> /\ rules[1].in = "body" /\ rules[1].schema.hasProperties
  /\ req.body.k = "obj"
  /\ args' = [arr |-> req.body.entries,
              divider |-> {e \in Range(req.body.entries) :
                             isFieldInValidationRules(rules[1].schema, e)}]
  /\ result' = Ok(spiltArray(args'.arr, args'.divider))
  /\ pc' = "split"
  /\ UNCHANGED <<req, rules, returned>>

Next ==
  \/ ValidateRequest \/ ValidateBody \/ ValidateQueryParams \/ Return
  \/ CastIfNeeded \/ CastAgain \/ Validate \/ AllItemsMatchType \/ SpiltArray

Spec == Init /\ [][Next]_vars

(***************************************************************************)
(* Properties.                                                             *)
(***************************************************************************)
NumberMsg == " is not a valid number"
StringMsg == " is not a valid string"
EmptyMsg == " must be non empty"
ArrayMsg == " is not a valid array"
RequiredMsg == " is a required field"
RelevantMsg == " is not relevant for this request"
Templates == {NumberMsg, StringMsg, EmptyMsg, ArrayMsg, RequiredMsg, RelevantMsg}

\* s is <location> . <name> <message> or <location> . <name> [ <index> ] <message>
IsErrorString(s) ==
  /\ Len(s) \in {4} \cup {n \in 7..Len(s) : TRUE}
  /\ s[1] \in {"body", "query"}
  /\ s[2] = "."
  /\ s[3] \in Keys
  /\ s[Len(s)] \in Templates
  /\ Len(s) > 4 =>
       /\ s[4] = "[" /\ s[Len(s) - 1] = "]"
       /\ \A i \in 5..(Len(s) - 2) : IsDigit(s[i])

\* every rule names a registered type and every body rule has schema.properties
WellFormedRules ==
  \A i \in 1..Len(rules) :
    IF rules[i].in = "body"
    THEN /\ rules[i].schema.hasProperties
         /\ \A n \in DOMAIN rules[i].schema.properties :
              rules[i].schema.properties[n].type \in RegisteredTypes
    ELSE rules[i].type \in RegisteredTypes

\* the single body rule under validation, when there is exactly one rule
OneBodyRule == Len(rules) = 1 /\ rules[1].in = "body"
OneQueryRule == Len(rules) = 1 /\ rules[1].in = "query"

\* the fields of the request body and the schema of the first rule
BodyEntries == req.body.entries
BodyKeys == [i \in 1..Len(BodyEntries) |-> BodyEntries[i][1]]
Schema1 == rules[1].schema
Known(key) == key \in DOMAIN Schema1.properties

\* C1: for well-formed rules validateRequest returns a flat sequence of plain
\* strings, each of one of the six message templates; in particular a body
\* property of type array holding a list of numbers and strings gives its
\* element errors as strings, never a nested list or a non-string entry.
C1_BodyArrayAsStrings ==
  (/\ pc = "request" /\ WellFormedRules /\ OneBodyRule
   /\ \E i \in 1..Len(BodyEntries) :
        /\ Known(BodyKeys[i])
        /\ Schema1.properties[BodyKeys[i]].type = "array"
        /\ IsArray(BodyEntries[i][2])
        /\ \A j \in 1..Len(BodyEntries[i][2].items) :
             BodyEntries[i][2].items[j].k \in {"num", "str"})
  => /\ ~result.threw
     /\ \A i \in 1..Len(result.val) : IsErrorString(result.val[i])

\* C10: a validation failure is never fatal: for well-formed rules and any
\* field value the entry points complete and return a list.
C10_NeverFatal ==
  (pc \in EntryPcs /\ WellFormedRules) => ~result.threw

\* what an element of a returned list reports: its message and its path; an
\* undefined entry or a nested list reports nothing
ViewEntry(e) ==
  IF e.t = "fn" THEN [msg |-> e.msg, path |-> e.path] ELSE [msg |-> "", path |-> <<>>]
ViewString(s) == [msg |-> s[Len(s)], path |-> SubSeq(s, 1, Len(s) - 1)]
Out ==
  [i \in 1..Len(result.val) |->
     IF pc = "request" THEN ViewString(result.val[i]) ELSE ViewEntry(result.val[i])]
Block(o) ==
  CASE o.msg = RelevantMsg -> 1
    [] o.msg = RequiredMsg -> 2
    [] OTHER -> 3
PathsOfBlock(b) ==
  LET sel == SelectSeq(Out, LAMBDA o : Block(o) = b)
  IN [i \in 1..Len(sel) |-> sel[i].path]
KeyPaths(location, keys) == [i \in 1..Len(keys) |-> <<location, ".", keys[i]>>]
UnknownKeys == SelectSeq(BodyKeys, LAMBDA key : ~Known(key))
KnownEntries == SelectSeq(BodyEntries, LAMBDA e : Known(e[1]))
Required1 == IF Schema1.hasRequired THEN Schema1.required ELSE <<>>
NilInBody(name) ==
  \A i \in 1..Len(BodyEntries) :
    BodyEntries[i][1] = name => BodyEntries[i][2].k \in {"null", "undefined"}
MissingNames == SelectSeq(Required1, LAMBDA name : NilInBody(name))
KeyPos(key) == CHOOSE i \in 1..Len(BodyKeys) : BodyKeys[i] = key
NonEmptyBody == req.body.k = "obj" /\ Len(BodyEntries) > 0
BodyCall == pc \in {"body", "request"} /\ OneBodyRule

\* C2: for a non-empty body the errors come in three consecutive blocks:
\* non-relevant fields in body key order, then required fields in the order
\* of schema.required, then the validations in body key order.
C2_ThreeBlocks ==
  (BodyCall /\ NonEmptyBody /\ ~result.threw) =>
    /\ \A i, j \in 1..Len(Out) : i < j => Block(Out[i]) <= Block(Out[j])
    /\ PathsOfBlock(1) = KeyPaths("body", UnknownKeys)
    /\ PathsOfBlock(2) = KeyPaths("body", MissingNames)
    /\ pc = "request" =>
         \A i, j \in 1..Len(Out) :
           (i < j /\ Block(Out[i]) = 3 /\ Block(Out[j]) = 3)
             => KeyPos(Out[i].path[3]) <= KeyPos(Out[j].path[3])

\* a body whose first key fails its validation, followed by an unknown key,
\* with a required name missing: all three blocks are reported
C2_Witness ==
  /\ pc = "request" /\ OneBodyRule /\ NonEmptyBody /\ ~result.threw
  /\ {Block(Out[i]) : i \in 1..Len(Out)} = {1, 2, 3}
  /\ Known(BodyKeys[1])
  /\ Block(Out[1]) = 1

\* C3: validateRequest(req, r1 ++ r2) = validateRequest(req, r1) ++
\* validateRequest(req, r2) whenever it completes on r1 and on r2.
C3_Compositional ==
  pc = "request" =>
    \A n \in 1..(Len(rules) - 1) :
      (/\ ~validateRequest(req, SubSeq(rules, 1, n)).threw
       /\ ~validateRequest(req, SubSeq(rules, n + 1, Len(rules))).threw)
      => /\ ~result.threw
         /\ result.val = validateRequest(req, SubSeq(rules, 1, n)).val
                         \o validateRequest(req, SubSeq(rules, n + 1, Len(rules))).val

\* three rules, the first and the last of which report errors
C3_Witness ==
  /\ pc = "request" /\ Len(rules) = 3 /\ ~result.threw
  /\ validateRequest(req, <<rules[1]>>).val # <<>>
  /\ validateRequest(req, <<rules[3]>>).val # <<>>
  /\ rules[1].in # rules[3].in

\* C4: for a non-empty body each name of schema.required whose value is nil
\* yields exactly one required-field error, each other name none, and the
\* required-field errors come in the order of schema.required.
C4_RequiredErrors ==
  (pc = "body" /\ OneBodyRule /\ NonEmptyBody /\ WellFormedRules) =>
    /\ \A i \in 1..Len(Required1) :
         Cardinality({j \in 1..Len(Out) :
                        Out[j] = [msg |-> RequiredMsg,
                                  path |-> <<"body", ".", Required1[i]>>]})
           = IF NilInBody(Required1[i]) THEN 1 ELSE 0
    /\ PathsOfBlock(2) = KeyPaths("body", MissingNames)

\* C5: an empty body ({}, [] or a falsy value) yields exactly one
\* required-field error per entry of schema.required, in that order, and
\* nothing else: no relevance check, no field validation; no required list
\* gives the empty result.
C5_EmptyBody ==
  (pc = "body" /\ ~NonEmptyBody) =>
    /\ ~result.threw
    /\ Len(result.val) = Len(Required1)
    /\ \A i \in 1..Len(result.val) :
         /\ result.val[i].t = "fn"
         /\ CallGenerator(result.val[i]) = <<rules[1].in, ".", Required1[i], RequiredMsg>>

\* a falsy body against a schema that has two required names and no properties
C5_Witness ==
  /\ pc = "body" /\ req.body.k = "null"
  /\ ~Schema1.hasProperties /\ Len(Required1) = 2
  /\ Len(result.val) = 2

\* C6: for a non-empty body every key outside schema.properties yields
\* exactly one non-relevant error whatever its value and no validation error,
\* every key of schema.properties yields no non-relevant error, and the
\* non-relevant errors plus the validated fields account for every entry.
C6_RelevantFields ==
  (pc = "body" /\ OneBodyRule /\ NonEmptyBody /\ WellFormedRules) =>
    /\ \A i \in 1..Len(BodyKeys) :
         /\ Cardinality({j \in 1..Len(Out) :
                           Out[j] = [msg |-> RelevantMsg,
                                     path |-> <<"body", ".", BodyKeys[i]>>]})
              = IF Known(BodyKeys[i]) THEN 0 ELSE 1
         /\ ~Known(BodyKeys[i]) =>
              \A j \in 1..Len(Out) :
                Out[j].path = <<"body", ".", BodyKeys[i]>> => Block(Out[j]) # 3
    /\ Len(PathsOfBlock(1)) + Len(KnownEntries) = Len(BodyEntries)

\* the value of the query parameter the first rule names; undefined if absent
QueryValue ==
  IF \E i \in 1..Len(req.query) : req.query[i][1] = rules[1].name
  THEN (CHOOSE e \in Range(req.query) : e[1] = rules[1].name)[2]
  ELSE Undefined
FalsyValues == {Undefined, Null, Num(0), Str(<<>>), Bool(FALSE), NaN}
\* a value no coercion turns into a value of the type
IllTyped(v, type) ==
  CASE type = "string" -> v.k # "str"
    [] type = "integer" -> ParseInt(v).k # "num"
    [] OTHER -> ~IsArray(v) /\ ~(v.k = "str" /\ v.s # <<>> /\ Head(v.s) \in {"[", "]"})

\* C7: an absent or falsy query parameter (undefined, null, 0, '', false, NaN)
\* gives the empty list; any other value is run through the validator of
\* rule.type, so an ill-typed one is reported and a non-empty string passes.
C7_FalsyQuerySkipped ==
  (pc = "query" /\ OneQueryRule) =>
    /\ QueryValue \in FalsyValues => result = Ok(<<>>)
    /\ (QueryValue \notin FalsyValues /\ IllTyped(QueryValue, rules[1].type))
         => (result.threw \/ result.val # <<>>)
    /\ (QueryValue \notin FalsyValues /\ QueryValue.k = "str"
        /\ rules[1].type = "string") => result = Ok(<<>>)

\* the number 0 given for a string parameter is skipped, not reported
C7_Witness ==
  /\ pc = "query" /\ OneQueryRule
  /\ QueryValue = Num(0) /\ rules[1].type = "string"
  /\ result = Ok(<<>>)

\* the error expected for each invalid element, by ascending original index
InvalidIndices(items) ==
  SelectSeq([i \in 1..Len(items) |-> i - 1],
            LAMBDA i : ParseInt(items[i + 1]).k # "num")
ExpectedItemErrors(location, name, items) ==
  [i \in 1..Len(InvalidIndices(items)) |->
     [msg |-> NumberMsg,
      path |-> <<location, ".", name, "[", Digits[InvalidIndices(items)[i] + 1], "]">>]]

\* C8: for a query rule of type array with integer items and a sequence
\* value, the errors are exactly '<in>.<name>[<i>] is not a valid number' for
\* each original index i of an invalid element, in ascending index order.
C8_IndexPreserving ==
  (/\ pc \in {"query", "request"} /\ OneQueryRule
   /\ rules[1].type = "array" /\ rules[1].items.type = "integer"
   /\ IsArray(QueryValue))
  => /\ ~result.threw
     /\ Out = ExpectedItemErrors("query", rules[1].name, QueryValue.items)

\* [valid, invalid, valid] reports index 1 alone
C8_Witness ==
  /\ pc = "request" /\ OneQueryRule
  /\ rules[1].type = "array" /\ rules[1].items.type = "integer"
  /\ QueryValue = Arr(<<Num(1), Str(X), Str(<<"2">>)>>)
  /\ result.val = <<<<"query", ".", rules[1].name, "[", "1", "]", NumberMsg>>>>

WellTyped(v, type) ==
  \/ type = "integer" /\ v.k = "num"
  \/ type = "string" /\ v.k = "str"
WellTypedNonEmpty(v, type) ==
  \/ type = "integer" /\ v.k = "num"
  \/ type = "string" /\ v.k = "str" /\ v.s # <<>>

\* validating a field whose value WT accepts for its type yields no errors
NoErrorsFor(WT(_, _)) ==
  /\ (BodyCall /\ NonEmptyBody /\ WellFormedRules) =>
       /\ \A i \in 1..Len(BodyEntries) :
            (Known(BodyKeys[i])
             /\ WT(BodyEntries[i][2], Schema1.properties[BodyKeys[i]].type))
            => \A j \in 1..Len(Out) :
                 Out[j].path = <<"body", ".", BodyKeys[i]>> => Block(Out[j]) # 3
       /\ (/\ \A i \in 1..Len(BodyEntries) :
                /\ Known(BodyKeys[i])
                /\ WT(BodyEntries[i][2], Schema1.properties[BodyKeys[i]].type)
           /\ MissingNames = <<>>)
          => /\ ~result.threw
             /\ \A j \in 1..Len(Out) : Out[j].msg = ""
  /\ (pc \in {"query", "request"} /\ OneQueryRule
      /\ WT(QueryValue, rules[1].type)) => result = Ok(<<>>)

\* C9 as stated: every integer for type integer and every string for type
\* string, the empty string included, yields no errors as a body property
\* or as a query parameter.
C9_WellTypedNoErrors == NoErrorsFor(WellTyped)

\* C9 amended: every integer for type integer and every non-empty string for
\* type string yields no errors as a body property or as a query parameter.
C9_NonEmptyWellTypedNoErrors == NoErrorsFor(WellTypedNonEmpty)

\* a body of an integer field and a non-empty string field passes
C9_Witness ==
  /\ pc = "request" /\ OneBodyRule /\ Len(BodyEntries) = 2
  /\ \A i \in 1..2 :
       /\ Known(BodyKeys[i])
       /\ WellTypedNonEmpty(BodyEntries[i][2], Schema1.properties[BodyKeys[i]].type)
  /\ {Schema1.properties[BodyKeys[i]].type : i \in 1..2} = {"integer", "string"}
  /\ MissingNames = <<>>
  /\ result = Ok(<<>>)

(***************************************************************************)
(* Coercion.                                                               *)
(***************************************************************************)
\* the type names typeToCast has a function for
CastTypes == {"integer", "array"}

\* the runtime type of the value already matches the type name: a number
\* for integer, a sequence for array
AlreadyTyped(v, type) ==
  \/ type = "integer" /\ TypeOf(v) = "number"
  \/ type = "array" /\ IsArray(v)

\* C11: castIfNeeded returns the value unchanged whenever the type name has
\* no coercion function (string, an unknown name) or the value's runtime type
\* already matches it (a number with integer, a sequence with array).
C11_CastUnchanged ==
  (pc = "cast" /\ (args.rule.type \notin CastTypes
                   \/ AlreadyTyped(args.value, args.rule.type)))
    => result = Ok(args.value)

NamesUnregisteredType ==
  \E i \in 1..Len(rules) :
    IF rules[i].in = "body"
    THEN \E n \in DOMAIN rules[i].schema.properties :
           rules[i].schema.properties[n].type \notin RegisteredTypes
    ELSE rules[i].type \notin RegisteredTypes

\* C13 as stated: whenever validateRequest is given a query rule or a body
\* property of an unregistered type, it fails with a runtime error.
C13_UnregisteredAlwaysThrows ==
  (pc = "request" /\ NamesUnregisteredType) => result.threw

\* C13: whenever validateRequest builds a validator for a field whose rule
\* names an unregistered type (a body entry with that property, a truthy
\* query parameter with that rule), it fails with a runtime error and
\* returns no result.
C13_UnregisteredThrowsWhenValidated ==
  (pc = "request"
   /\ \E f \in Fields(req, rules) :
        f.rule.type \notin RegisteredTypes /\ ReachesValidator(f))
    => result.threw

\* a body field or a truthy query parameter of an unregistered type was validated
C13_Witness ==
  /\ pc = "request" /\ result.threw
  /\ \E f \in Fields(req, rules) :
       /\ f.rule.type = UnknownType
       /\ ReachesValidator(f)
       /\ f.value = Str(X)

(***************************************************************************)
(* The validators of one field.                                            *)
(***************************************************************************)
\* the value has a length and it is zero
LengthIsZero(v) ==
  \/ v.k = "str" /\ Len(v.s) = 0
  \/ v.k = "arr" /\ Len(v.items) = 0

\* C14: for a field of type string holding any value, validate returns
\* exactly two positions: position 0 is the error "<path> is not a valid
\* string" iff the value is not a string, position 1 is the error "<path>
\* must be non empty" iff the value's length is zero, each independent of the
\* other.
C14_StringTwoPositions ==
  (pc = "validate" /\ args.rule.type = "string") =>
    /\ ~result.threw
    /\ Len(result.val) = 2
    /\ result.val[1] = IF args.value.k # "str" THEN ErrFn(args.path, StringMsg)
                       ELSE UndefEntry
    /\ result.val[2] = IF LengthIsZero(args.value) THEN ErrFn(args.path, EmptyMsg)
                       ELSE UndefEntry

\* the errors of one kind in a list of entries
ErrorsWith(es, msg) == SelectSeq(es, LAMBDA e : e.t = "fn" /\ e.msg = msg)

\* the base-10 parse of the value is an integer
ParsesToInteger(v) == ParseInt(v).k = "num"

\* C15: for a field of type integer the value tested is the base-10 integer
\* parse of the raw value: the field yields exactly one error "<path> is not
\* a valid number" iff the parse is not an integral number and no error
\* otherwise, and coercion never raises; the same holds for an integer
\* property of a body.
C15_IntegerField ==
  /\ (pc = "validate" /\ args.rule.type = "integer") =>
       result = Ok(<<IF ParsesToInteger(args.value) THEN UndefEntry
                     ELSE ErrFn(args.path, NumberMsg)>>)
  /\ (pc = "cast" /\ args.rule.type = "integer") =>
       result = Ok(ParseInt(args.value))
  /\ (pc = "body" /\ OneBodyRule /\ WellFormedRules /\ Len(BodyEntries) = 1
      /\ Known(BodyKeys[1]) /\ Schema1.properties[BodyKeys[1]].type = "integer") =>
       /\ ~result.threw
       /\ ErrorsWith(result.val, NumberMsg)
            = IF ParsesToInteger(BodyEntries[1][2]) THEN <<>>
              ELSE <<ErrFn(<<"body", ".", BodyKeys[1]>>, NumberMsg)>>

\* a string with a numeric prefix is tested as its parse and passes; a
\* non-numeric string is reported
C15_Witness ==
  /\ pc = "validate" /\ args.rule.type = "integer"
  /\ \/ args.value = Str(<<"1", "x">>) /\ result = Ok(<<UndefEntry>>)
     \/ args.value = Str(X) /\ result = Ok(<<ErrFn(args.path, NumberMsg)>>)

\* C16: for a rule of type array whose coerced value is not a sequence the
\* items check returns an empty result and the field yields exactly one
\* error "<path> is not a valid array" and no per-element error; when the
\* coerced value is a sequence no "is not a valid array" error is produced.
C16_NotASequence ==
  /\ (pc = "items" /\ ~IsArray(args.toValidate)) => result = Ok(<<>>)
  /\ (pc = "validate" /\ args.rule.type = "array"
      /\ ~castIfNeeded(args.value, "array").threw) =>
       IF IsArray(castIfNeeded(args.value, "array").val)
       THEN ~result.threw =>
              /\ result.val[1] = UndefEntry
              /\ ErrorsWith(result.val[2].items, ArrayMsg) = <<>>
       ELSE result = Ok(<<ErrFn(args.path, ArrayMsg), ListEntry(<<>>)>>)

\* a number given to an array rule: the items check has returned the empty
\* list
C16_Witness ==
  /\ pc = "items"
  /\ args.toValidate = Num(12)
  /\ result = Ok(<<>>)

\* the trimmed string form of the value starts with "["
StartsWithBracket(v) ==
  LET t == SkipWhiteSpace(JSString(v)) IN t # <<>> /\ Head(t) = "["

\* C17: castIfNeeded(value, "array") returns the value unchanged when it is
\* a sequence or its trimmed string form does not start with "["; otherwise
\* it returns the strings obtained by removing brackets, quotes and
\* whitespace from the string form and splitting it on commas.
C17_ArrayCoercion ==
  (pc = "cast" /\ args.rule.type = "array") =>
    result = IF IsArray(args.value) \/ ~StartsWithBracket(args.value)
             THEN Ok(args.value)
             ELSE Ok(Arr(StrItems(SplitComma(StripChars(JSString(args.value)), <<>>))))

(***************************************************************************)
(* The items of an array.                                                  *)
(***************************************************************************)
\* the list under the items check, its rule and the type of its items
ItemsChecked == args.toValidate.items
ItemType == args.rule.items.type

NoNilItem == \A i \in 1..Len(ItemsChecked) : ~isNil(ItemsChecked[i])

C20_Partition ==
  pc = "split" =>
    /\ ~result.threw /\ Len(result.val) = 2
    /\ result.val[1] = SelectSeq(args.arr, LAMBDA e : e \in args.divider)
    /\ result.val[2] = SelectSeq(args.arr, LAMBDA e : e \notin args.divider)
    /\ Len(result.val[1]) + Len(result.val[2]) = Len(args.arr)
    /\ args.arr = <<>> => result.val = <<<<>>, <<>>>>

\* a body of MaxBodyLen entries was split into known and unknown entries
C20_Witness ==
  /\ pc = "split"
  /\ Len(args.arr) = MaxBodyLen
  /\ Len(result.val[1]) >= 1 /\ Len(result.val[2]) >= 1

(***************************************************************************)
(* Query validation.                                                       *)
(***************************************************************************)
\* the names the query rules of the rule list give
QueryRuleNames == {rules[i].name : i \in {k \in 1..Len(rules) : rules[k].in = "query"}}

\* the keys of the query object
QueryKeys == {req.query[i][1] : i \in 1..Len(req.query)}

\* C21: query validation only produces type-validation errors for the field
\* a rule names: every error validateRequest returns for the query is neither
\* "is a required field" nor "is not relevant for this request", its path
\* starts with <rule.in>.<rule.name> of a query rule, and a query key no rule
\* names has no error; likewise every entry validateQueryParams returns has
\* the path of its rule.
C21_QueryErrorsOnlyForNamedField ==
  /\ (pc = "request" /\ ~result.threw) =>
       \A i \in 1..Len(result.val) :
         result.val[i][1] = "query" =>
           /\ result.val[i][Len(result.val[i])] \in {NumberMsg, StringMsg, EmptyMsg, ArrayMsg}
           /\ result.val[i][2] = "."
           /\ result.val[i][3] \in QueryRuleNames
  /\ (pc = "query" /\ ~result.threw) =>
       \A i \in 1..Len(result.val) :
         /\ result.val[i].t = "fn"
         /\ result.val[i].msg \in {NumberMsg, StringMsg, EmptyMsg, ArrayMsg}
         /\ SubSeq(result.val[i].path, 1, 3) = <<rules[1].in, ".", rules[1].name>>

\* query rules only, a query with a key no rule names, and an error returned
\* for the named key
C21_Witness ==
  /\ pc = "request" /\ ~result.threw
  /\ \A i \in 1..Len(rules) : rules[i].in = "query"
  /\ QueryKeys \ QueryRuleNames # {}
  /\ \E i \in 1..Len(result.val) : result.val[i][1] = "query"
====
